---- MODULE Spec2Model ----
(***************************************************************************)
(* clipwhisper: the timestamp arithmetic (TargetTimeStamp), the templated  *)
(* argument rendering (CommandChunk, ClipCommand) and the control flow of  *)
(* main (probe with ffprobe, bind, render, run ffmpeg).                    *)
(*                                                                         *)
(* A u32 is kept at its full width as two 16-bit limbs [hi, lo], so that   *)
(* 4294967295 and the overflow of offset + duration are the real ones.     *)
(* An f32 is kept as the facts `as u32` and the comparisons depend on:     *)
(* NaN, infinity, sign, whether the magnitude reaches 2^32, the integer    *)
(* part of the magnitude and whether there is a fractional part.           *)
(* A String that may be interpolated is a sequence of segments (literal    *)
(* text and `{key}` placeholders); Text gives the raw string.              *)
(***************************************************************************)
EXTENDS Integers, Sequences, FiniteSets, TLC

VARIABLES pc, args, command, max_length, ffmpeg_args, probe, ffmpeg, exit, lib

vars == <<pc, args, command, max_length, ffmpeg_args, probe, ffmpeg, exit, lib>>

----------------------------------------------------------------------------
(* u32 *)

Base == 2^16

U32(hi, lo) == [hi |-> hi, lo |-> lo]

Small(n) == U32(0, n)

u32_max_value == U32(Base - 1, Base - 1)

Gt(a, b) == a.hi > b.hi \/ (a.hi = b.hi /\ a.lo > b.lo)

Le(a, b) == ~Gt(a, b)

\* u32::overflowing_add: the wrapped sum and whether it overflowed
overflowing_add(a, b) ==
    LET lo == a.lo + b.lo
        hi == a.hi + b.hi + (lo \div Base)
    IN  [val |-> U32(hi % Base, lo % Base), overflow |-> hi >= Base]

\* F applied to the value of v, with v evaluated once
Let(v, F(_)) == CHOOSE r \in {F(x) : x \in {v}} : TRUE

\* quotient and remainder of a u32 by ten, limb by limb
DivMod10(a) ==
    Let((a.hi % 10) * Base + a.lo,
        LAMBDA rest : [q |-> U32(a.hi \div 10, rest \div 10), r |-> rest % 10])

Digit == <<"0", "1", "2", "3", "4", "5", "6", "7", "8", "9">>

\* Display of a u32: plain decimal, no padding
RECURSIVE display(_)
display(a) ==
    Let(DivMod10(a),
        LAMBDA d : IF d.q = Small(0) THEN Digit[d.r + 1]
                   ELSE display(d.q) \o Digit[d.r + 1])

----------------------------------------------------------------------------
(* f32 *)

NaN == [kind |-> "nan", neg |-> FALSE, over |-> FALSE, whole |-> Small(0), frac |-> FALSE]

Inf(neg) == [kind |-> "inf", neg |-> neg, over |-> TRUE, whole |-> Small(0), frac |-> FALSE]

\* a finite value below 2^32 in magnitude: sign, integer part, has a fraction
Fin(neg, whole, frac) ==
    [kind |-> "fin", neg |-> neg, over |-> FALSE, whole |-> whole, frac |-> frac]

\* a finite value of magnitude 2^32 or more
Huge(neg) == [kind |-> "fin", neg |-> neg, over |-> TRUE, whole |-> Small(0), frac |-> FALSE]

\* the cast rounding a fraction up instead of dropping it
as_u32_ceil(f) ==
    IF f.kind = "nan" THEN Small(0)
    ELSE IF f.neg THEN Small(0)
    ELSE IF f.over THEN u32_max_value
    ELSE IF f.frac THEN overflowing_add(f.whole, Small(1)).val
    ELSE f.whole

\* `max_length as u32`: truncates toward zero, saturates, NaN gives 0
as_u32(f) ==
    IF f.kind = "nan" THEN Small(0)
    ELSE IF f.neg THEN Small(0)
    ELSE IF f.over THEN u32_max_value
    ELSE f.whole

----------------------------------------------------------------------------
(* panics *)

Panic == [panic |-> TRUE]

IsPanic(r) == r = Panic

----------------------------------------------------------------------------
(* TargetTimeStamp *)

TargetTimeStamp(start, end) == [start |-> start, end |-> end]

\* the builder with a wrapping sum and no saturation
TargetTimeStamp_new_wrapping(offset, duration) ==
    TargetTimeStamp(offset, overflowing_add(offset, duration).val)

\* the builder with a checked sum (`offset + duration` of a debug build) that panics
TargetTimeStamp_new_checked(offset, duration) ==
    LET sum == overflowing_add(offset, duration)
    IN  IF sum.overflow THEN Panic ELSE TargetTimeStamp(offset, sum.val)

\* TargetTimeStamp::new: the overflow-safe builder
TargetTimeStamp_new(offset, duration) ==
    LET start == offset
        sum   == overflowing_add(offset, duration)
        end   == IF sum.overflow THEN u32_max_value ELSE sum.val
    IN  TargetTimeStamp(start, end)

\* bind_values without its second match: end is left as it was
bind_values_end_unbound(self, max_length_) ==
    LET video_length == as_u32(max_length_)
    IN  TargetTimeStamp(IF Gt(self.start, video_length) THEN video_length ELSE self.start,
                        self.end)

\* TargetTimeStamp::bind_values: start and end each bound to the truncated length
bind_values(self, max_length_) ==
    LET video_length == as_u32(max_length_)
        start == IF Gt(self.start, video_length) THEN video_length ELSE self.start
        end   == IF Gt(self.end, video_length) THEN video_length ELSE self.end
    IN  TargetTimeStamp(start, end)

----------------------------------------------------------------------------
(* CommandChunk *)

Lit(text) == [kind |-> "lit", text |-> text]

Key(name) == [kind |-> "key", text |-> name]

\* the raw string a segment sequence stands for
RECURSIVE Text(_)
Text(value) ==
    IF value = <<>> THEN ""
    ELSE LET seg == Head(value)
         IN  (IF seg.kind = "key" THEN "{" \o seg.text \o "}" ELSE seg.text)
                 \o Text(Tail(value))

CommandChunk(flag, value) == [flag |-> flag, value |-> value]

\* interpolator::format: every {key} replaced by formats[key]; an unknown key is an Err
RECURSIVE format(_, _)
format(value, formats) ==
    IF value = <<>> THEN [ok |-> TRUE, text |-> ""]
    ELSE Let(format(Tail(value), formats),
             LAMBDA rest :
                 LET seg == Head(value)
                 IN  IF seg.kind = "lit"
                     THEN [ok |-> rest.ok, text |-> seg.text \o rest.text]
                     ELSE IF seg.text \in DOMAIN formats
                          THEN [ok |-> rest.ok, text |-> formats[seg.text] \o rest.text]
                          ELSE [ok |-> FALSE, text |-> ""])

\* CommandChunk::format_chunk: the flag cloned, the value interpolated, expect on Err
format_chunk(self, target) ==
    Let([start |-> display(target.start), end |-> display(target.end)],
        LAMBDA formats :
            Let(format(self.value, formats),
                LAMBDA formatted :
                    IF ~formatted.ok THEN Panic
                    ELSE CommandChunk(self.flag, <<Lit(formatted.text)>>)))

----------------------------------------------------------------------------
(* ClipCommand *)

Args(input, output, duration, offset) ==
    [input |-> input, output |-> output, duration |-> duration, offset |-> offset]

video_filter_value ==
    <<Lit("select='between(t,"), Key("start"), Lit(","), Key("end"),
      Lit(")',setpts=N/FRAME_RATE/TB")>>

audio_filter_value ==
    <<Lit("aselect='between(t,"), Key("start"), Lit(","), Key("end"),
      Lit(")',asetpts=N/SR/TB")>>

ClipCommand(target, a) ==
    IF IsPanic(target) THEN Panic
    ELSE [executable   |-> "ffmpeg",
          input        |-> CommandChunk("-i", <<Lit(a.input)>>),
          video_filter |-> CommandChunk("-vf", video_filter_value),
          audio_filter |-> CommandChunk("-af", audio_filter_value),
          output       |-> CommandChunk("-o", <<Lit(a.output)>>),
          target       |-> target]

\* the conversion with offset and duration passed in the wrong order
ClipCommand_from_swapped(a) ==
    ClipCommand(TargetTimeStamp_new(a.duration, a.offset), a)

\* impl From<Args> for ClipCommand
ClipCommand_from(a) ==
    ClipCommand(TargetTimeStamp_new(a.offset, a.duration), a)

\* .flat_map(|it| vec![it.flag, it.value])
RECURSIVE flat_map(_)
flat_map(chunks) ==
    IF chunks = <<>> THEN <<>>
    ELSE <<Head(chunks).flag, Text(Head(chunks).value)>> \o flat_map(Tail(chunks))

\* whether a call of render_arguments panics in one of its format_chunk calls
render_panics(self) ==
    \/ IsPanic(format_chunk(self.video_filter, self.target))
    \/ IsPanic(format_chunk(self.audio_filter, self.target))

\* the rendering with output treated like the other chunks: "-o" and no "-y"
render_arguments_with_output_flag(self) ==
    Let(<<self.input,
          format_chunk(self.video_filter, self.target),
          format_chunk(self.audio_filter, self.target),
          self.output>>,
        LAMBDA chunks : flat_map(chunks))

\* ClipCommand::render_arguments
render_arguments(self) ==
    Let(<<self.input,
          format_chunk(self.video_filter, self.target),
          format_chunk(self.audio_filter, self.target)>>,
        LAMBDA chunks :
            Append(Append(flat_map(chunks), "-y"), Text(self.output.value)))

----------------------------------------------------------------------------
(* inputs *)

MaxBinds == 2

MaxRenders == 2

\* 0, 2, 7, 4294967290, 4294967295
Offsets == {Small(0), Small(2), Small(7), U32(65535, 65530), u32_max_value}

\* 0, 10, 100, 4294967295
Durations == {Small(0), Small(10), Small(100), u32_max_value}

Inputs == {"in.mp4", "-o"}

Outputs == {"out.mp4", "-o"}

ArgsSet ==
    {Args(i, o, d, s) : i \in Inputs, o \in Outputs, d \in Durations, s \in Offsets}

\* NaN, inf, -inf, -5.9, -0.5, 0.0, 1.5, 5.0, 5.9, 12.0, 3000000000.0, 4294967040.0,
\* 2^32 and beyond, -2^32 and beyond
Lengths ==
    {NaN, Inf(FALSE), Inf(TRUE),
     Fin(TRUE, Small(5), TRUE), Fin(TRUE, Small(0), TRUE),
     Fin(FALSE, Small(0), FALSE), Fin(FALSE, Small(1), TRUE),
     Fin(FALSE, Small(5), FALSE), Fin(FALSE, Small(5), TRUE),
     Fin(FALSE, Small(12), FALSE),
     Fin(FALSE, U32(45776, 24064), FALSE), Fin(FALSE, U32(65535, 65280), FALSE),
     Huge(FALSE), Huge(TRUE)}

\* what ffprobe wrote to its standard output: whether it is UTF-8, whether the
\* trimmed text parses as an f32, and the f32 it parses to
InvalidUtf8 == [utf8 |-> FALSE, number |-> FALSE, value |-> NaN]

NotANumber == [utf8 |-> TRUE, number |-> FALSE, value |-> NaN]

Number(f) == [utf8 |-> TRUE, number |-> TRUE, value |-> f]

Stdouts == {InvalidUtf8, NotANumber} \cup {Number(f) : f \in Lengths}

Statuses == {"success", "failure"}

----------------------------------------------------------------------------
(* state *)

NoCommand == [none |-> TRUE]

NoLength == [kind |-> "none"]

NoChunk == [none |-> TRUE]

NoProbe == [state |-> "none", calls |-> 0, status |-> "none", stdout |-> NotANumber]

NoFfmpeg ==
    [state |-> "none", calls |-> 0, status |-> "none", executable |-> "", argv |-> <<>>]

NoExit == [code |-> "none", at |-> "none"]

\* what the caller of the library has seen: the last call, the calls so far, whether
\* ffmpeg_args (clean) and chunk (fresh) were computed from the window as it is now,
\* whether the last render repeated one with no bind_values in between
LibIdle ==
    [last |-> "none", binds |-> 0, renders |-> 0, clean |-> FALSE, repeated |-> FALSE,
     chunk |-> NoChunk, chunk_of |-> "none", fresh |-> FALSE]

Init ==
    /\ pc = "start"
    /\ args \in ArgsSet
    /\ command = NoCommand
    /\ max_length = NoLength
    /\ ffmpeg_args = <<>>
    /\ probe = NoProbe
    /\ ffmpeg = NoFfmpeg
    /\ exit = NoExit
    /\ lib = LibIdle

\* a panic unwinds main: the process ends with status 101
PanicAt(where) ==
    /\ pc' = "panicked"
    /\ exit' = [code |-> "101", at |-> where]

----------------------------------------------------------------------------
(* main *)

\* let mut command: ClipCommand = Args::parse().into();
MainFrom ==
    /\ pc = "start"
    /\ LET c == ClipCommand_from(args)
       IN  IF IsPanic(c)
           THEN PanicAt("from") /\ UNCHANGED command
           ELSE command' = c /\ pc' = "built" /\ UNCHANGED exit
    /\ UNCHANGED <<args, max_length, ffmpeg_args, probe, ffmpeg, lib>>

\* get_max_length: command.output() cannot start ffprobe
MainProbeSpawnFail ==
    /\ pc = "built"
    /\ probe' = [probe EXCEPT !.state = "spawn_failed", !.calls = @ + 1]
    /\ PanicAt("probe")
    /\ UNCHANGED <<args, command, max_length, ffmpeg_args, ffmpeg, lib>>

\* get_max_length: command.output() starts ffprobe and waits for it
MainProbeSpawn ==
    /\ pc = "built"
    /\ probe' = [probe EXCEPT !.state = "alive", !.calls = @ + 1]
    /\ pc' = "probing"
    /\ UNCHANGED <<args, command, max_length, ffmpeg_args, ffmpeg, exit, lib>>

\* String::from_utf8(output.stdout).expect(..).trim().parse().expect(..)
get_max_length(stdout) ==
    IF ~stdout.utf8 THEN Panic
    ELSE IF ~stdout.number THEN Panic
    ELSE stdout.value

\* ffprobe ends with some status and some output; the status is not looked at
probe_exit(status, stdout) ==
    /\ pc = "probing"
    /\ probe' = [probe EXCEPT !.state = "exited", !.status = status, !.stdout = stdout]
    /\ LET length == get_max_length(stdout)
       IN  IF IsPanic(length)
           THEN PanicAt("probe") /\ UNCHANGED max_length
           ELSE max_length' = length /\ pc' = "probed" /\ UNCHANGED exit
    /\ UNCHANGED <<args, command, ffmpeg_args, ffmpeg, lib>>

MainProbeExit == \E status \in Statuses, stdout \in Stdouts : probe_exit(status, stdout)

\* command.target = command.target.bind_values(max_length);
MainBind ==
    /\ pc = "probed"
    /\ command' = [command EXCEPT !.target = bind_values(@, max_length)]
    /\ pc' = "bound"
    /\ UNCHANGED <<args, max_length, ffmpeg_args, probe, ffmpeg, exit, lib>>

\* let ffmpeg_args = command.render_arguments();
MainRender ==
    /\ pc = "bound"
    /\ IF render_panics(command)
       THEN PanicAt("render") /\ UNCHANGED ffmpeg_args
       ELSE ffmpeg_args' = render_arguments(command) /\ pc' = "rendered" /\ UNCHANGED exit
    /\ UNCHANGED <<args, command, max_length, probe, ffmpeg, lib>>

\* Command::new(command.executable).args(ffmpeg_args).output() cannot start ffmpeg
MainFfmpegSpawnFail ==
    /\ pc = "rendered"
    /\ ffmpeg' = [ffmpeg EXCEPT !.state = "spawn_failed", !.calls = @ + 1,
                                !.executable = command.executable, !.argv = ffmpeg_args]
    /\ PanicAt("ffmpeg")
    /\ UNCHANGED <<args, command, max_length, ffmpeg_args, probe, lib>>

\* Command::new(command.executable).args(ffmpeg_args).output() starts ffmpeg
MainFfmpegSpawn ==
    /\ pc = "rendered"
    /\ ffmpeg' = [ffmpeg EXCEPT !.state = "alive", !.calls = @ + 1,
                                !.executable = command.executable, !.argv = ffmpeg_args]
    /\ pc' = "running"
    /\ UNCHANGED <<args, command, max_length, ffmpeg_args, probe, exit, lib>>

\* the end of ffmpeg with a retry: an unsuccessful status starts ffmpeg again
ffmpeg_exit_retry(status) ==
    /\ pc = "running"
    /\ ffmpeg' = [ffmpeg EXCEPT !.state = "exited", !.status = status]
    /\ IF status = "success"
       THEN pc' = "done" /\ exit' = [code |-> "0", at |-> "none"]
       ELSE pc' = "rendered" /\ UNCHANGED exit
    /\ UNCHANGED <<args, command, max_length, ffmpeg_args, probe, lib>>

\* the end of ffmpeg with its status not looked at
ffmpeg_exit_status_ignored(status) ==
    /\ pc = "running"
    /\ ffmpeg' = [ffmpeg EXCEPT !.state = "exited", !.status = status]
    /\ pc' = "done"
    /\ exit' = [code |-> "0", at |-> "none"]
    /\ UNCHANGED <<args, command, max_length, ffmpeg_args, probe, lib>>

\* ffmpeg ends; match exit_status.success() { true => Ok(()), false => panic!(..) }
ffmpeg_exit(status) ==
    /\ pc = "running"
    /\ ffmpeg' = [ffmpeg EXCEPT !.state = "exited", !.status = status]
    /\ IF status = "success"
       THEN pc' = "done" /\ exit' = [code |-> "0", at |-> "none"]
       ELSE PanicAt("ffmpeg")
    /\ UNCHANGED <<args, command, max_length, ffmpeg_args, probe, lib>>

MainFfmpegExit == \E status \in Statuses : ffmpeg_exit(status)

\* the steps main takes by itself (the rest are the child processes ending)
Step ==
    \/ MainFrom
    \/ MainProbeSpawnFail
    \/ MainProbeSpawn
    \/ MainBind
    \/ MainRender
    \/ MainFfmpegSpawnFail
    \/ MainFfmpegSpawn

Next ==
    \/ MainFrom
    \/ MainProbeSpawnFail
    \/ MainProbeSpawn
    \/ MainProbeExit
    \/ MainBind
    \/ MainRender
    \/ MainFfmpegSpawnFail
    \/ MainFfmpegSpawn
    \/ MainFfmpegExit

Spec == Init /\ [][Next]_vars

\* main is one thread that never waits except for a child: its own steps are taken
FairSpec == Spec /\ WF_vars(Step)

----------------------------------------------------------------------------
(* the library used directly: a ClipCommand built from Args, then any calls *)

LibInit ==
    /\ pc = "lib"
    /\ args \in {a \in ArgsSet : a.input = "in.mp4" /\ a.output = "out.mp4"}
    /\ command = ClipCommand_from(args)
    /\ max_length = NoLength
    /\ ffmpeg_args = <<>>
    /\ probe = NoProbe
    /\ ffmpeg = NoFfmpeg
    /\ exit = NoExit
    /\ lib = [LibIdle EXCEPT !.last = "new"]

\* command.target.bind_values(length): &mut self, the window is overwritten
LibBind ==
    /\ lib.binds < MaxBinds
    /\ \E length \in Lengths :
         /\ command' = [command EXCEPT !.target = bind_values(@, length)]
         /\ max_length' = length
    /\ lib' = [lib EXCEPT !.last = "bind", !.binds = @ + 1, !.clean = FALSE,
                          !.repeated = FALSE, !.fresh = FALSE]
    /\ UNCHANGED <<pc, args, ffmpeg_args, probe, ffmpeg, exit>>

\* a rendering that formats the two filter chunks of the command in place
LibRender_formats_in_place ==
    /\ lib.renders < MaxRenders
    /\ ~render_panics(command)
    /\ ffmpeg_args' = render_arguments(command)
    /\ command' = [command EXCEPT
                     !.video_filter = format_chunk(@, command.target),
                     !.audio_filter = format_chunk(@, command.target)]
    /\ lib' = [lib EXCEPT !.last = "render", !.renders = @ + 1, !.clean = TRUE,
                          !.repeated = lib.clean]
    /\ UNCHANGED <<pc, args, max_length, probe, ffmpeg, exit>>

\* command.render_arguments(): &self, only the returned Vec is new
LibRender ==
    /\ lib.renders < MaxRenders
    /\ ~render_panics(command)
    /\ ffmpeg_args' = render_arguments(command)
    /\ lib' = [lib EXCEPT !.last = "render", !.renders = @ + 1, !.clean = TRUE,
                          !.repeated = lib.clean]
    /\ UNCHANGED <<pc, args, command, max_length, probe, ffmpeg, exit>>

\* command.video_filter.format_chunk(&command.target), and the same for audio
LibFormatChunk ==
    /\ \E which \in {"video_filter", "audio_filter"} :
         lib' = [lib EXCEPT !.last = "format", !.chunk_of = which, !.fresh = TRUE,
                            !.chunk = format_chunk(command[which], command.target)]
    /\ UNCHANGED <<pc, args, command, max_length, ffmpeg_args, probe, ffmpeg, exit>>

LibNext ==
    \/ LibBind
    \/ LibRender
    \/ LibFormatChunk

LibSpec == LibInit /\ [][LibNext]_vars

----------------------------------------------------------------------------
(* properties *)

\* main has clamped the window (line 16 of main has run)
Bound ==
    \/ pc \in {"bound", "rendered", "running", "done"}
    \/ pc = "panicked" /\ exit.at = "ffmpeg"

\* main has rendered the arguments (line 18 of main has run)
Rendered ==
    \/ pc \in {"rendered", "running", "done"}
    \/ pc = "panicked" /\ exit.at = "ffmpeg"

Overflows(a) == overflowing_add(a.offset, a.duration).overflow

\* C1: the window of a ClipCommand always has start <= end: after
\* TargetTimeStamp::new for every offset and duration, overflowing or not, and after
\* every bind_values with any media length.
C1_StartLeEnd == Le(command.target.start, command.target.end)

\* offset + duration overflowed and the window was bound to a length below the offset
C1_Witness ==
    /\ lib.last = "bind"
    /\ Overflows(args)
    /\ Gt(args.offset, as_u32(max_length))
    /\ command.target.start = command.target.end

\* C2: new(offset, duration), and so the window of a ClipCommand built from Args, has
\* start = offset and end = offset + duration when the sum fits 32 bits, and
\* end = 4294967295, never the wrapped sum, when it does not; 4294967290 + 100 gives
\* start = 4294967290, end = 4294967295.
C2_NewSaturates ==
    pc \in {"built", "probing", "probed"} =>
        LET sum == overflowing_add(args.offset, args.duration)
            t   == command.target
        IN  /\ t.start = args.offset
            /\ ~sum.overflow => t.end = sum.val
            /\ sum.overflow => t.end = U32(65535, 65535) /\ t.end # sum.val
            /\ args.offset = U32(65535, 65530) /\ args.duration = Small(100)
                  => t = TargetTimeStamp(U32(65535, 65530), U32(65535, 65535))

C2_Witness ==
    /\ pc = "built"
    /\ args.offset = U32(65535, 65530)
    /\ args.duration = Small(100)
    /\ command.target.end = u32_max_value

\* the media length in whole seconds as the code takes it: the fraction dropped, a
\* negative length or NaN taken as 0, a length of 2^32 or more taken as 4294967295
SaturatedSeconds(f) ==
    IF f.kind = "nan" \/ f.neg THEN Small(0)
    ELSE IF f.kind = "inf" \/ f.over THEN U32(65535, 65535)
    ELSE f.whole

\* C3 as stated, with T the media length truncated toward zero as a number: below
\* zero for a length of -1 or less (no unsigned end is <= T), 2^32 or more for a
\* length that large (no offset exceeds T); NaN and the infinities have no whole
\* number of seconds and are left out.
C3_TruncatedTowardZero ==
    Bound =>
        LET f == max_length
            t == command.target
        IN  IF f.kind \in {"nan", "inf"} THEN TRUE
            ELSE IF f.neg /\ (f.over \/ f.whole # Small(0)) THEN FALSE
            ELSE IF f.over THEN t.start = args.offset
            ELSE /\ Le(t.end, f.whole)
                 /\ t.start = IF Gt(args.offset, f.whole) THEN f.whole ELSE args.offset

\* C3 (amended): with T the media length in whole seconds as an unsigned 32-bit
\* number (truncated toward zero, negative and NaN giving 0, 2^32 and more giving
\* 4294967295), after new(offset, duration).bind_values(media_length): end <= T, and
\* start = T if offset > T, else start = offset; 0, 10, 5.9 gives start 0, end 5.
C3_BoundToSaturatedSeconds ==
    Bound =>
        LET T == SaturatedSeconds(max_length)
            t == command.target
        IN  /\ Le(t.end, T)
            /\ t.start = IF Gt(args.offset, T) THEN T ELSE args.offset
            /\ /\ args.offset = Small(0)
               /\ args.duration = Small(10)
               /\ max_length = Fin(FALSE, Small(5), TRUE)
               => t = TargetTimeStamp(Small(0), Small(5))

C3_Witness ==
    /\ pc = "bound"
    /\ args.offset = Small(0)
    /\ args.duration = Small(10)
    /\ max_length = Fin(FALSE, Small(5), TRUE)
    /\ command.target = TargetTimeStamp(Small(0), Small(5))

\* the eight arguments the claim lists, for the window as it is when rendered
EightArguments ==
    LET start == display(command.target.start)
        end   == display(command.target.end)
    IN  <<"-i", args.input,
          "-vf", "select='between(t," \o start \o "," \o end \o ")',setpts=N/FRAME_RATE/TB",
          "-af", "aselect='between(t," \o start \o "," \o end \o ")',asetpts=N/SR/TB",
          "-y", args.output>>

\* the rendered sequences the spec and the largest window give, digit for digit
RenderedExamples ==
    /\ /\ command.target = TargetTimeStamp(Small(2), Small(12))
       /\ args.input = "in.mp4"
       /\ args.output = "out.mp4"
       => ffmpeg_args = <<"-i", "in.mp4",
                          "-vf", "select='between(t,2,12)',setpts=N/FRAME_RATE/TB",
                          "-af", "aselect='between(t,2,12)',asetpts=N/SR/TB",
                          "-y", "out.mp4">>
    /\ command.target = TargetTimeStamp(U32(65535, 65530), U32(65535, 65535))
       => /\ ffmpeg_args[4] = "select='between(t,4294967290,4294967295)',setpts=N/FRAME_RATE/TB"
          /\ ffmpeg_args[6] = "aselect='between(t,4294967290,4294967295)',asetpts=N/SR/TB"

\* C4 as stated: the eight strings in order, and "-o" nowhere in the sequence.
C4_NoDashOAnywhere ==
    Rendered =>
        /\ ffmpeg_args = EightArguments
        /\ \A i \in DOMAIN ffmpeg_args : ffmpeg_args[i] # "-o"

\* C4 (amended): render_arguments returns exactly eight strings in this order: "-i",
\* the input path, "-vf", the video template rendered with the window, "-af", the
\* audio template rendered with the same window, "-y", the output path; the output
\* chunk's flag "-o" is never added: "-o" is in the sequence only as the input path
\* (2nd) or the output path (8th), when that path is itself "-o".
C4_EightArgumentsInOrder ==
    Rendered =>
        /\ ffmpeg_args = EightArguments
        /\ Len(ffmpeg_args) = 8
        /\ ffmpeg_args[7] = "-y" /\ ffmpeg_args[8] = args.output
        /\ \A i \in DOMAIN ffmpeg_args :
              ffmpeg_args[i] = "-o" =>
                  \/ i = 2 /\ args.input = "-o"
                  \/ i = 8 /\ args.output = "-o"
        /\ RenderedExamples

C4_Witness ==
    /\ pc = "rendered"
    /\ command.target = TargetTimeStamp(Small(2), Small(12))
    /\ ffmpeg_args = <<"-i", "in.mp4",
                       "-vf", "select='between(t,2,12)',setpts=N/FRAME_RATE/TB",
                       "-af", "aselect='between(t,2,12)',asetpts=N/SR/TB",
                       "-y", "out.mp4">>

\* C5: a probe that could not be started, that ended with a non-zero status or whose
\* output does not parse as a number is fatal: ffmpeg is never started after it.
C5_ProbeFailureIsFatal ==
    (\/ probe.state = "spawn_failed"
     \/ probe.state = "exited" /\ probe.status = "failure"
     \/ probe.state = "exited" /\ ~(probe.stdout.utf8 /\ probe.stdout.number))
        => ffmpeg.calls = 0

\* C6: one fixed order, nothing twice: ffprobe is started once and has ended before
\* the window is clamped, the window is clamped before the arguments are rendered,
\* ffmpeg is started at most once, after rendering, with the arguments rendered from
\* the clamped window, and the two children are never alive together.
C6_FixedOrder ==
    /\ probe.calls <= 1 /\ ffmpeg.calls <= 1
    /\ pc \notin {"start", "built"} /\ exit.at # "from" => probe.calls = 1
    /\ max_length # NoLength => probe.state = "exited"
    /\ Bound =>
          /\ probe.state = "exited" /\ max_length # NoLength
          /\ command.target =
                bind_values(TargetTimeStamp_new(args.offset, args.duration), max_length)
    /\ ~Bound => ffmpeg_args = <<>>
    /\ Rendered => ffmpeg_args = render_arguments(command)
    /\ ~Rendered => ffmpeg.calls = 0 /\ ffmpeg.state = "none"
    /\ ffmpeg.calls = 1 =>
          /\ ffmpeg.argv = ffmpeg_args
          /\ ffmpeg.executable = "ffmpeg"
          /\ probe.state = "exited"
    /\ ~(probe.state = "alive" /\ ffmpeg.state = "alive")

C6_Witness ==
    /\ pc = "done"
    /\ probe.calls = 1
    /\ ffmpeg.calls = 1
    /\ Gt(args.offset, command.target.start)

\* C7: the run ends with status 0 exactly when ffmpeg was started and ended
\* successfully; ffmpeg failing to start or ending unsuccessfully ends the run with a
\* failure status; ffmpeg is not started again.
C7_SuccessIffFfmpegSucceeded ==
    /\ pc \in {"done", "panicked"} =>
          (exit.code = "0" <=> ffmpeg.state = "exited" /\ ffmpeg.status = "success")
    /\ pc \in {"done", "panicked"} <=> exit.code # "none"
    /\ pc = "done" <=> exit.code = "0"
    /\ ffmpeg.state = "spawn_failed" \/ (ffmpeg.state = "exited" /\ ffmpeg.status = "failure")
          => pc = "panicked" /\ exit.code = "101"
    /\ ffmpeg.state = "exited" => ffmpeg.calls = 1

C7_Witness ==
    /\ pc = "panicked"
    /\ ffmpeg.state = "exited"
    /\ ffmpeg.status = "failure"
    /\ exit.code = "101"

\* C8: overflow and an out-of-range window never abort the run: no run ends in
\* construction, clamping or rendering; every run reaches the probe, and every run
\* whose probe gave a length goes on to render and to start ffmpeg.
C8_ClampNeverAborts ==
    /\ [](exit.at \notin {"from", "bind", "render"})
    /\ [](pc = "start" => <>(probe.calls = 1))
    /\ [](pc = "probed" => <>(Rendered /\ ffmpeg.calls = 1))

\* the sum overflowed, the media is shorter than a second, and ffmpeg was started
C8_Witness ==
    /\ max_length # NoLength
    /\ Overflows(args)
    /\ Gt(args.offset, as_u32(max_length))
    /\ as_u32(max_length) = Small(0)
    /\ command.target = TargetTimeStamp(Small(0), Small(0))
    /\ ffmpeg.calls = 1

C10_NeverLongerThanAsked ==
    LET sum == overflowing_add(command.target.start, args.duration)
    IN  sum.overflow \/ Le(command.target.end, sum.val)

\* a clip of length zero from a request of ten seconds or more
C10_Witness ==
    /\ lib.last = "bind"
    /\ args.duration # Small(0)
    /\ command.target.start = command.target.end
    /\ ~Overflows(args)

====
